---- MODULE Spec2Model ----
(***************************************************************************)
(* Model of kinto/core/resource/schema.py: the colander schema nodes used  *)
(* to validate request headers, querystrings and bodies, and the binding   *)
(* of their deferred sub-schemas.                                          *)
(*                                                                         *)
(* The module under study subclasses colander nodes; the colander          *)
(* primitives it calls (SchemaNode.deserialize, String, Sequence, Mapping, *)
(* Regex, OneOf, Any, bind/clone) are modelled by the operators named      *)
(* after them, each mapped to the line of schema.py that invokes it.       *)
(***************************************************************************)
EXTENDS Integers, Sequences, FiniteSets, TLC

VARIABLES
    pc,       \* position of the single call under study: "start" | "done"
    lib,      \* behaviour of the installed colander build (see LibBuilds)
    schema,   \* the schema node the call is made on
    cstruct,  \* the raw input handed to deserialize
    result,   \* what deserialize returned or raised
    objs,     \* schema objects supplied through binding contexts (shared)
    insts     \* schema instances: constructed ones and the clones bind returns

vars == <<pc, lib, schema, cstruct, result, objs, insts>>

\* Bounds of the model.
MaxHeaderLen == 3
MaxInsts == 2

----------------------------------------------------------------------------
(* Outcomes of a deserialize call. *)

NoResult == [kind |-> "none", v |-> <<>>, msg |-> ""]
Drop == [kind |-> "drop", v |-> <<>>, msg |-> ""]
Invalid(m) == [kind |-> "Invalid", v |-> <<>>, msg |-> m]
ValueError == [kind |-> "ValueError", v |-> <<>>, msg |-> ""]
Value(x) == [kind |-> "value", v |-> x, msg |-> ""]

\* colander builds differ in two behaviours this module relies on:
\*   coerce  : String.deserialize turns a non-string scalar into text
\*             (older builds) instead of raising Invalid (newer builds);
\*   seqdrop : Sequence.deserialize leaves out an element whose node
\*             deserialized to colander.drop (newer builds) instead of
\*             keeping the drop sentinel in the list (older builds).
LibBuilds == [coerce : BOOLEAN, seqdrop : BOOLEAN]

----------------------------------------------------------------------------
(* Header fields: HeaderField, HeaderQuotedInteger.                        *)

Digits == {"1", "2"}
Quote == "\""
Star == "*"
Newline == "\n"
HeaderChars == Digits \cup {Quote, Star, Newline, "a"}

RECURSIVE SeqsUpTo(_, _)
SeqsUpTo(S, n) ==
    IF n = 0 THEN {<<>>}
    ELSE LET shorter == SeqsUpTo(S, n - 1)
         IN shorter \cup {Append(s, c) : s \in {t \in shorter : Len(t) = n - 1}, c \in S}

AllIn(s, S) == \A i \in 1..Len(s) : s[i] \in S

DigitVal(c) == IF c = "1" THEN 1 ELSE 2

RECURSIVE DecimalValue(_)
DecimalValue(s) ==
    IF Len(s) = 0 THEN 0
    ELSE 10 * DecimalValue(SubSeq(s, 1, Len(s) - 1)) + DigitVal(s[Len(s)])

\* str.strip() as int() applies it: leading and trailing whitespace removed.
RECURSIVE Strip(_)
Strip(s) ==
    IF Len(s) > 0 /\ s[1] = Newline THEN Strip(Tail(s))
    ELSE IF Len(s) > 0 /\ s[Len(s)] = Newline THEN Strip(SubSeq(s, 1, Len(s) - 1))
    ELSE s

\* Python's int(text): the integer, or ValueError.
PyInt(s) ==
    LET t == Strip(s)
    IN IF Len(t) > 0 /\ AllIn(t, Digits) THEN Value(DecimalValue(t)) ELSE ValueError

\* Python's param[1:-1].
Slice1m1(s) == IF Len(s) >= 2 THEN SubSeq(s, 2, Len(s) - 1) ELSE <<>>

\* colander.Regex('^"([0-9]+?)"$'): re.match, where $ also matches just
\* before a trailing newline.
QuotedRegex(s) ==
    LET body == IF Len(s) > 0 /\ s[Len(s)] = Newline THEN SubSeq(s, 1, Len(s) - 1) ELSE s
    IN /\ Len(body) >= 3
       /\ body[1] = Quote
       /\ body[Len(body)] = Quote
       /\ AllIn(SubSeq(body, 2, Len(body) - 1), Digits)

\* colander.Regex('\*'): re.match anchors at the start only.
StarRegex(s) == Len(s) > 0 /\ s[1] = Star

\* colander.Any(...): valid as soon as one of the validators accepts.
QuotedIntegerValidator(s) == QuotedRegex(s) \/ StarRegex(s)

QuotedIntegerMessage == "The value should be integer between double quotes"

HeaderInputs ==
    {[form |-> "absent", s |-> <<>>, utf8 |-> TRUE]}
    \cup [form : {"text", "bytes"}, s : SeqsUpTo(HeaderChars, MaxHeaderLen), utf8 : {TRUE}]
    \cup {[form |-> "bytes", s |-> <<>>, utf8 |-> FALSE]}

\* HeaderField.deserialize down to SchemaNode.deserialize with a String type,
\* missing = colander.drop and the node's validator, whose verdict on the
\* decoded text is `valid`.
HeaderFieldDeserialize(c, valid, message) ==
    IF c.form = "bytes" /\ ~c.utf8 THEN Invalid("Headers should be UTF-8 encoded")
    ELSE IF c.form = "absent" THEN Drop
    ELSE IF c.s = <<>> THEN Drop          \* String: "if not cstruct: return null"
    ELSE IF ~valid THEN Invalid(message)
    ELSE Value(c.s)

HeaderQuotedIntegerDeserialize(c) ==
    LET param == HeaderFieldDeserialize(c, QuotedIntegerValidator(c.s), QuotedIntegerMessage)
    IN IF param.kind # "value" THEN param
       ELSE IF param.v = <<Star>> THEN param
       ELSE PyInt(Slice1m1(param.v))

InitHeader ==
    /\ pc = "start"
    /\ lib \in LibBuilds
    /\ schema = "HeaderQuotedInteger"
    /\ cstruct \in HeaderInputs
    /\ result = NoResult
    /\ objs = <<>>
    /\ insts = <<>>

DeserializeHeader ==
    /\ pc = "start"
    /\ result' = HeaderQuotedIntegerDeserialize(cstruct)
    /\ pc' = "done"
    /\ UNCHANGED <<lib, schema, cstruct, objs, insts>>

SpecHeader == InitHeader /\ [][DeserializeHeader]_vars

\* What the four-outcome contract expects of a header value.
IsQuotedDigits(s) ==
    /\ Len(s) >= 3
    /\ s[1] = Quote
    /\ s[Len(s)] = Quote
    /\ AllIn(Slice1m1(s), Digits)

\* (An empty value is counted with the absent ones here.)
ExpectedQuotedInteger(c) ==
    IF c.form = "absent" \/ (c.utf8 /\ c.s = <<>>) THEN Drop
    ELSE IF c.form = "bytes" /\ ~c.utf8 THEN Invalid("Headers should be UTF-8 encoded")
    ELSE IF IsQuotedDigits(c.s) THEN Value(DecimalValue(Slice1m1(c.s)))
    ELSE IF c.s = <<Star>> THEN Value(<<Star>>)
    ELSE Invalid(QuotedIntegerMessage)

\* C1: every header value has one of four outcomes: "<digits>" gives that
\* integer, '*' gives '*', an absent value is dropped, and every other value
\* gives an Invalid error, never a value and never another kind of failure.
C1_FourOutcomes ==
    pc = "done" /\ schema = "HeaderQuotedInteger" => result = ExpectedQuotedInteger(cstruct)

----------------------------------------------------------------------------
(* Querystrings: QueryField, FieldList, QuerySchema and a subclass with    *)
(* declared fields.                                                        *)

\* A querystring text is a sequence of symbols: the comma, and comma-free
\* runs of characters ("a", "3", "1.5", "true"). <<"a", ",", "3">> is the text
\* "a,3" and <<>> the empty text.
Comma == ","
ScalarSyms == {"a", "3", "1.5", "true"}
ListSyms == {"a", "3", Comma}
MaxTextLen == 3

ScalarTexts == {<<>>} \cup {<<a>> : a \in ScalarSyms}
ListTexts == SeqsUpTo(ListSyms, MaxTextLen)

RECURSIVE JoinSyms(_)
JoinSyms(text) == IF Len(text) = 0 THEN "" ELSE text[1] \o JoinSyms(Tail(text))

\* str.split(','): the runs between the commas, empty runs included.
RECURSIVE SplitComma(_)
SplitComma(text) ==
    IF \A i \in 1..Len(text) : text[i] # Comma THEN <<text>>
    ELSE LET i == CHOOSE j \in 1..Len(text) :
                      text[j] = Comma /\ \A k \in 1..(j - 1) : text[k] # Comma
         IN <<SubSeq(text, 1, i - 1)>> \o SplitComma(SubSeq(text, i + 1, Len(text)))

Typed(t, v) == [t |-> t, v |-> v]
DropMark == Typed("drop", "")

\* kinto.core.utils.native_value on one text: boolean, integer, float, else
\* the text itself. A value that is not text is returned as it is.
NativeValue(text) ==
    IF text \in {<<"true">>, <<"false">>} THEN Typed("bool", JoinSyms(text))
    ELSE IF Len(text) > 0 /\ AllIn(text, {"3"}) THEN Typed("int", JoinSyms(text))
    ELSE IF text = <<"1.5">> THEN Typed("float", JoinSyms(text))
    ELSE Typed("str", JoinSyms(text))

NativeValueOfItem(x) == IF x.t = "text" THEN NativeValue(x.v) ELSE x

MapSeq(f(_), s) == [i \in 1..Len(s) |-> f(s[i])]

\* Sequence.deserialize of FieldList: every piece goes through the String
\* node `fields` (missing = drop), so an empty piece deserializes to drop.
FieldListNode(text, build) ==
    LET pieces == SplitComma(text)
        one(a) == IF a = <<>> THEN DropMark ELSE Typed("text", a)
        all == MapSeq(one, pieces)
        keep(x) == x # DropMark
    IN IF build.seqdrop THEN SelectSeq(all, keep) ELSE all

StrOfItem(x) == IF x.t = "text" THEN Typed("str", JoinSyms(x.v)) ELSE x

\* FieldList.deserialize: a list of strings.
FieldListDeserialize(text, build) == Value(MapSeq(StrOfItem, FieldListNode(text, build)))

\* int(x) as colander.Integer applies it to a native value.
PyIntOfNative(x) ==
    IF x.t = "bool" THEN Value(Typed("int", IF x.v = "true" THEN "1" ELSE "0"))
    ELSE IF x.t = "int" THEN Value(x)
    ELSE IF x.t = "float" THEN Value(Typed("int", "1"))
    ELSE Invalid("is not a number")

\* QueryField(colander.Integer()).deserialize
QueryIntegerDeserialize(text) ==
    LET native == NativeValue(text)
    IN IF native = Typed("str", "") THEN Drop     \* Number: "not cstruct" is null
       ELSE PyIntOfNative(native)

\* The declared fields of the modelled subclass (CollectionQuerySchema's
\* _limit and _sort); QuerySchema itself declares none.
QuerySchemas == {"QuerySchema", "CollectionQuerySchema"}
DeclaredFields(cls) == IF cls = "CollectionQuerySchema" THEN {"_limit", "_sort"} ELSE {}

FieldDeserialize(k, text, build) ==
    IF k = "_limit" THEN QueryIntegerDeserialize(text) ELSE FieldListDeserialize(text, build)

\* k.startswith('in_') or k.startswith('exclude_')
ListFilterKeys == {"in_id", "exclude_id"}
IsListFilter(k) == k \in ListFilterKeys

\* MappingSchema.deserialize with unknown='ignore': the declared fields
\* present in the input, each through its node; a dropped field is left out.
StructuralPass(cls, c, build) ==
    LET present == DeclaredFields(cls) \cap DOMAIN c
        res == [k \in present |-> FieldDeserialize(k, c[k], build)]
    IN IF \E k \in present : res[k].kind = "Invalid" THEN Invalid("structural")
       ELSE Value([k \in {x \in present : res[x].kind = "value"} |-> res[k].v])

\* The loop over the raw input: a guessed value for every key of it.
GuessPass(c, build) ==
    [k \in DOMAIN c |->
        IF IsListFilter(k)
        THEN MapSeq(NativeValueOfItem, FieldListNode(c[k], build))
        ELSE NativeValue(c[k])]

\* dict.update: the entries of `over` replace those of `base`.
Update(base, over) ==
    [k \in DOMAIN base \cup DOMAIN over |-> IF k \in DOMAIN over THEN over[k] ELSE base[k]]

QuerySchemaDeserializeSwapped(cls, c, build) ==
    LET schema_values == StructuralPass(cls, c, build)
    IN IF schema_values.kind = "Invalid" THEN schema_values
       ELSE Value(Update(schema_values.v, GuessPass(c, build)))

QuerySchemaDeserialize(cls, c, build) ==
    LET schema_values == StructuralPass(cls, c, build)
    IN IF schema_values.kind = "Invalid" THEN schema_values
       ELSE Value(Update(GuessPass(c, build), schema_values.v))

\* Raw querystrings: each scalar key absent or one scalar text, and at most
\* one list-valued key (_sort or a list filter) with a list text.
QueryInputs ==
    LET scalarPart == UNION {[K -> ScalarTexts] : K \in SUBSET {"_limit", "deleted"}}
        listPart == {<<>>} \cup
            {[k \in {f} |-> t] : f \in ListFilterKeys \cup {"_sort"}, t \in ListTexts}
    IN {Update(a, b) : a \in scalarPart, b \in listPart}

InitQuery ==
    /\ pc = "start"
    /\ lib \in {b \in LibBuilds : b.coerce}   \* no String node meets a non-string here
    /\ schema \in QuerySchemas
    /\ cstruct \in QueryInputs
    /\ result = NoResult
    /\ objs = <<>>
    /\ insts = <<>>

DeserializeQuery ==
    /\ pc = "start"
    /\ result' = QuerySchemaDeserialize(schema, cstruct, lib)
    /\ pc' = "done"
    /\ UNCHANGED <<lib, schema, cstruct, objs, insts>>

SpecQuery == InitQuery /\ [][DeserializeQuery]_vars

NonEmptyPiece(piece) == piece # <<>>
NotDropMark(x) == x # DropMark

\* C2 as stated: a declared key present in the input maps to its field's
\* value; every other key is retained with the native-value guess of its
\* text, an in_/exclude_ key with the list of guesses of all the pieces
\* obtained by splitting its text on commas.
C2_AsClaimed ==
    (pc = "done" /\ schema \in QuerySchemas /\ result.kind = "value") =>
        /\ DOMAIN result.v = DOMAIN cstruct
        /\ \A k \in DOMAIN cstruct :
              IF k \in DeclaredFields(schema)
              THEN FieldDeserialize(k, cstruct[k], lib).kind = "value"
                       => result.v[k] = FieldDeserialize(k, cstruct[k], lib).v
              ELSE IF IsListFilter(k)
              THEN result.v[k] = MapSeq(NativeValue, SplitComma(cstruct[k]))
              ELSE result.v[k] = NativeValue(cstruct[k])

\* C2 amended: a declared key present in the input maps to its field's value,
\* or, when the field dropped it (an empty text), to the native-value guess
\* of its text; an in_/exclude_ key maps to the guesses of the non-empty
\* pieces of its text, in order: an empty piece yields no guess (it is left
\* out, or stays as the drop sentinel on a build without sequence drop);
\* every other key maps to the native-value guess of its text.
C2_Amended ==
    (pc = "done" /\ schema \in QuerySchemas /\ result.kind = "value") =>
        /\ DOMAIN result.v = DOMAIN cstruct
        /\ \A k \in DOMAIN cstruct :
              IF k \in DeclaredFields(schema)
              THEN LET field == FieldDeserialize(k, cstruct[k], lib)
                   IN /\ field.kind = "value" => result.v[k] = field.v
                      /\ field.kind = "drop" => result.v[k] = NativeValue(cstruct[k])
              ELSE IF IsListFilter(k)
              THEN /\ SelectSeq(result.v[k], NotDropMark)
                         = MapSeq(NativeValue, SelectSeq(SplitComma(cstruct[k]), NonEmptyPiece))
                   /\ Len(result.v[k]) =
                         IF lib.seqdrop
                         THEN Len(SelectSeq(SplitComma(cstruct[k]), NonEmptyPiece))
                         ELSE Len(SplitComma(cstruct[k]))
              ELSE result.v[k] = NativeValue(cstruct[k])

C2_Witness ==
    /\ pc = "done"
    /\ schema = "CollectionQuerySchema"
    /\ result.kind = "value"
    /\ DOMAIN cstruct = {"_limit", "deleted", "in_id"}
    /\ cstruct["_limit"] = <<"true">>
    /\ cstruct["in_id"] = <<"a", Comma, "3">>
    /\ result.v["_limit"] = Typed("int", "1")
    /\ result.v["in_id"] = <<Typed("str", "a"), Typed("int", "3")>>

----------------------------------------------------------------------------
(* PermissionsSchema.                                                      *)

\* JSON values a permission can be mapped to: a list of principals, a text,
\* or a mapping. A principal is a text (possibly empty) or a number.
MaxPrincipals == 2
Principals == {Typed("str", "x"), Typed("str", "y"), Typed("str", ""), Typed("int", "5")}
PermValues ==
    [shape : {"list"}, items : SeqsUpTo(Principals, MaxPrincipals)]
    \cup [shape : {"text", "mapping"}, items : {<<>>}]

PermNames == {"write", "custom:perm"}
PermInputs ==
    [isdict : {TRUE}, m : UNION {[K -> PermValues] : K \in SUBSET PermNames}]
    \cup {[isdict |-> FALSE, m |-> <<>>]}

\* The `permissions` keyword of the constructor: none (open), or a vocabulary.
KnownPermsChoices == {<<>>, <<"write", "read">>}

Range(s) == {s[i] : i \in 1..Len(s)}

\* SchemaNode(String()) with no `missing`: an empty (falsy) value is null,
\* and null is refused as Required; a non-string is coerced or refused.
StringNodeDeserialize(x, build) ==
    IF x.v = "" THEN Invalid("Required")
    ELSE IF x.t = "str" THEN Value(x)
    ELSE IF build.coerce THEN Value(Typed("str", x.v))
    ELSE Invalid("is not a string")

\* Sequence of String nodes: a list is required (a text or a mapping is not
\* iterable for colander), and every element goes through the String node.
PrincipalsDeserialize(val, build) ==
    IF val.shape # "list" THEN Invalid("is not iterable")
    ELSE LET one(x) == StringNodeDeserialize(x, build)
             all == MapSeq(one, val.items)
             val_(r) == r.v
         IN IF \E i \in 1..Len(all) : all[i].kind = "Invalid"
            THEN Invalid("principals")
            ELSE Value(MapSeq(val_, all))

RECURSIVE JoinChoices(_)
JoinChoices(choices) ==
    IF Len(choices) = 0 THEN ""
    ELSE IF Len(choices) = 1 THEN choices[1]
    ELSE choices[1] \o ", " \o JoinChoices(Tail(choices))

\* colander.OneOf(choices)(node, value): its failure message.
OneOfMessage(value, choices) ==
    Quote \o value \o Quote \o " is not one of " \o JoinChoices(choices)

\* SchemaNode.deserialize of something that is not a dict.
NotADictDeserialize == Invalid("is not a mapping type")

\* Mapping.deserialize over the nodes of _get_node_principals (missing=drop),
\* with unknown='raise'.
KnownPermsMapping(known_perms, m, build) ==
    LET declared == Range(known_perms) \cap DOMAIN m
        res == [k \in declared |-> PrincipalsDeserialize(m[k], build)]
    IN IF DOMAIN m \ Range(known_perms) # {} THEN Invalid("Unrecognized keys in mapping")
       ELSE IF \E k \in declared : res[k].kind = "Invalid" THEN Invalid("principals")
       ELSE Value([k \in declared |-> res[k].v])

\* The open branch: every value through a SequenceSchema of String nodes.
OpenPermsMapping(m, build) ==
    LET res == [k \in DOMAIN m |-> PrincipalsDeserialize(m[k], build)]
    IN IF \E k \in DOMAIN m : res[k].kind = "Invalid" THEN Invalid("principals")
       ELSE Value([k \in DOMAIN m |-> res[k].v])

\* Mutants: the vocabulary check left out; the open branch left to the
\* generic Mapping(unknown='preserve'), which passes values through.
PermissionsSchemaDeserializeNoOneOf(known_perms, c, build) ==
    IF ~c.isdict THEN NotADictDeserialize
    ELSE IF Len(known_perms) > 0 THEN KnownPermsMapping(known_perms, c.m, build)
    ELSE OpenPermsMapping(c.m, build)

PermissionsSchemaDeserializePreserve(known_perms, c, build) ==
    IF ~c.isdict THEN NotADictDeserialize
    ELSE IF Len(known_perms) > 0
    THEN IF \E perm \in DOMAIN c.m : perm \notin Range(known_perms)
         THEN LET perm == CHOOSE q \in DOMAIN c.m : q \notin Range(known_perms)
              IN Invalid(OneOfMessage(perm, known_perms))
         ELSE KnownPermsMapping(known_perms, c.m, build)
    ELSE Value([k \in DOMAIN c.m |-> c.m[k].items])

PermissionsSchemaDeserialize(known_perms, c, build) ==
    IF ~c.isdict THEN NotADictDeserialize
    ELSE IF Len(known_perms) > 0
    THEN IF \E perm \in DOMAIN c.m : perm \notin Range(known_perms)
         THEN LET perm == CHOOSE q \in DOMAIN c.m : q \notin Range(known_perms)
              IN Invalid(OneOfMessage(perm, known_perms))
         ELSE KnownPermsMapping(known_perms, c.m, build)
    ELSE OpenPermsMapping(c.m, build)

InitPermissions ==
    /\ pc = "start"
    /\ lib \in LibBuilds
    /\ schema \in KnownPermsChoices
    /\ cstruct \in PermInputs
    /\ result = NoResult
    /\ objs = <<>>
    /\ insts = <<>>

DeserializePermissions ==
    /\ pc = "start"
    /\ result' = PermissionsSchemaDeserialize(schema, cstruct, lib)
    /\ pc' = "done"
    /\ UNCHANGED <<lib, schema, cstruct, objs, insts>>

SpecPermissions == InitPermissions /\ [][DeserializePermissions]_vars

IsListOf(val, P) == val.shape = "list" /\ AllIn(val.items, P)
Strings == {x \in Principals : x.t = "str"}
NonEmptyStrings == {x \in Strings : x.v # ""}
AsGiven(m) == Value([k \in DOMAIN m |-> m[k].items])

ClosedCase == pc = "done" /\ schema \in KnownPermsChoices /\ Len(schema) > 0 /\ cstruct.isdict
OpenCase == pc = "done" /\ schema \in KnownPermsChoices /\ Len(schema) = 0 /\ cstruct.isdict

UnknownKeyRefused ==
    (\E k \in DOMAIN cstruct.m : k \notin Range(schema)) =>
        /\ result.kind = "Invalid"
        /\ \E k \in DOMAIN cstruct.m \ Range(schema) : result.msg = OneOfMessage(k, schema)

HasNonList(m) == \E k \in DOMAIN m : m[k].shape # "list"
HasNonString(m) ==
    \E k \in DOMAIN m : m[k].shape = "list" /\ \E x \in Range(m[k].items) : x.t # "str"
HasEmptyString(m) ==
    \E k \in DOMAIN m : m[k].shape = "list" /\ Typed("str", "") \in Range(m[k].items)

\* C5 as stated: with no vocabulary every key is accepted; if every value is
\* a sequence of strings the result is the input mapping, keys and order
\* kept; a value that is not a list, or a non-string principal, fails with
\* Invalid.
C5_AsClaimed ==
    OpenCase =>
        /\ ((\A k \in DOMAIN cstruct.m : IsListOf(cstruct.m[k], Strings))
               => result = AsGiven(cstruct.m))
        /\ (HasNonList(cstruct.m) \/ HasNonString(cstruct.m) => result.kind = "Invalid")

\* C5 amended: every key is accepted; if every value is a sequence of
\* non-empty strings the result is the input mapping, keys and order kept; a
\* value that is not a list, or a list holding an empty string, fails with
\* Invalid; a non-string principal fails with Invalid on a colander build
\* whose String type refuses non-strings (an older build turns it into text).
C5_Amended ==
    OpenCase =>
        /\ ((\A k \in DOMAIN cstruct.m : IsListOf(cstruct.m[k], NonEmptyStrings))
               => result = AsGiven(cstruct.m))
        /\ (HasNonList(cstruct.m) \/ HasEmptyString(cstruct.m) => result.kind = "Invalid")
        /\ (HasNonString(cstruct.m) /\ ~lib.coerce => result.kind = "Invalid")

C5_Witness ==
    /\ OpenCase
    /\ DOMAIN cstruct.m = {"custom:perm"}
    /\ cstruct.m["custom:perm"].items = <<Typed("str", "x"), Typed("str", "y")>>
    /\ result.kind = "value"
    /\ result.v["custom:perm"] = <<Typed("str", "x"), Typed("str", "y")>>

----------------------------------------------------------------------------
(* JsonPatchOperationSchema, JsonPatchBodySchema.                          *)

\* An operation is a mapping from some of these keys to texts; "x" stands
\* for a key the schema does not declare. A path is a sequence of
\* characters: the slash, a word character, and a character that is neither.
OperationKeys == {"op", "path", "from", "value", "x"}
MaxPathLen == 2
MaxOps == 2
PathChars == {"/", "a", "-"}
WordChars == {"a"}
PathTexts == SeqsUpTo(PathChars, MaxPathLen)
FromTexts == {<<>>, <<"/">>, <<"a">>, <<"/", "a">>, <<"/", "-">>}
OpTexts == {"add", "test", "bogus", ""}
op_values == {"test", "add", "remove", "replace", "move", "copy"}

\* The whole of s is one or more groups, each a slash and word characters.
FullPathMatch(s) == Len(s) > 0 /\ s[1] = "/" /\ AllIn(s, {"/"} \cup WordChars)

\* Mutant: the pattern applied to the whole text.
path_validator_fullmatch(s) == FullPathMatch(s)

\* colander.Regex('(/\w*)+'): re.match, so a prefix of s has to match.
path_validator(s) == \E n \in 1..Len(s) : FullPathMatch(SubSeq(s, 1, n))

op_validator(o) == o \in op_values

\* The operations of the model: one well-formed operation and every
\* operation that differs from it in one key.
BaseOperation == [k \in {"op", "path"} |-> IF k = "op" THEN "add" ELSE <<"/", "a">>]
WithKey(o, k, val) == [j \in DOMAIN o \cup {k} |-> IF j = k THEN val ELSE o[j]]
WithoutKey(o, k) == [j \in DOMAIN o \ {k} |-> o[j]]
Operations ==
    {BaseOperation, WithoutKey(BaseOperation, "op"), WithoutKey(BaseOperation, "path")}
    \cup {WithKey(BaseOperation, "op", t) : t \in OpTexts}
    \cup {WithKey(BaseOperation, "path", t) : t \in PathTexts}
    \cup {WithKey(BaseOperation, "from", t) : t \in FromTexts}
    \cup {WithKey(BaseOperation, "value", "1"), WithKey(BaseOperation, "x", "1")}

\* The fields of an operation that fail: `op` and `path` are required String
\* nodes with a validator, `from` is a String node with missing=drop, `value`
\* is an Any node, and the mapping raises on any other key.
OperationFailures(o) ==
    (IF "op" \in DOMAIN o /\ o["op"] # "" /\ op_validator(o["op"]) THEN {} ELSE {"op"})
    \cup (IF "path" \in DOMAIN o /\ o["path"] # <<>> /\ path_validator(o["path"])
          THEN {} ELSE {"path"})
    \cup (IF "from" \in DOMAIN o /\ o["from"] # <<>> /\ ~path_validator(o["from"])
          THEN {"from"} ELSE {})
    \cup (DOMAIN o \ {"op", "path", "from", "value"})

\* What a valid operation deserializes to: an empty `from` is null for the
\* String type, and missing=drop leaves it out.
OperationValue(o) ==
    IF "from" \in DOMAIN o /\ o["from"] = <<>> THEN WithoutKey(o, "from") ELSE o

InvalidAt(S) == [kind |-> "Invalid", v |-> S, msg |-> ""]

\* SequenceSchema.deserialize: every operation through the operation node,
\* all failures collected.
JsonPatchBodyDeserialize(body) ==
    LET failures == UNION {{<<i, f>> : f \in OperationFailures(body[i])} : i \in 1..Len(body)}
    IN IF failures # {} THEN InvalidAt(failures) ELSE Value(MapSeq(OperationValue, body))

InitPatch ==
    /\ pc = "start"
    /\ lib \in {b \in LibBuilds : b.coerce /\ b.seqdrop}   \* only texts are modelled here
    /\ schema = "JsonPatchBodySchema"
    /\ cstruct \in SeqsUpTo(Operations, MaxOps)
    /\ result = NoResult
    /\ objs = <<>>
    /\ insts = <<>>

DeserializePatch ==
    /\ pc = "start"
    /\ result' = JsonPatchBodyDeserialize(cstruct)
    /\ pc' = "done"
    /\ UNCHANGED <<lib, schema, cstruct, objs, insts>>

SpecPatch == InitPatch /\ [][DeserializePatch]_vars

\* The pattern (/\w*)+ as re.match applies it: the text begins with a slash.
MatchesPattern(s) == Len(s) > 0 /\ s[1] = "/"

WellFormed(o) ==
    /\ "op" \in DOMAIN o /\ o["op"] \in op_values
    /\ "path" \in DOMAIN o /\ MatchesPattern(o["path"])
    /\ "from" \in DOMAIN o => MatchesPattern(o["from"])
    /\ DOMAIN o \subseteq {"op", "path", "from", "value"}

WellFormedOrEmptyFrom(o) ==
    /\ "op" \in DOMAIN o /\ o["op"] \in op_values
    /\ "path" \in DOMAIN o /\ MatchesPattern(o["path"])
    /\ "from" \in DOMAIN o => (o["from"] = <<>> \/ MatchesPattern(o["from"]))
    /\ DOMAIN o \subseteq {"op", "path", "from", "value"}

PatchDone == pc = "done" /\ schema = "JsonPatchBodySchema"

FailsOnOpAndPath ==
    \A i \in 1..Len(cstruct) :
        /\ ("op" \in DOMAIN cstruct[i] /\ cstruct[i]["op"] = "bogus") => <<i, "op">> \in result.v
        /\ ("path" \in DOMAIN cstruct[i] /\ cstruct[i]["path"] = <<"a">>) => <<i, "path">> \in result.v

----------------------------------------------------------------------------
(* ResourceSchema: the unknown-field policy of a schema nested in another. *)

\* Two ResourceSchema subclasses, each with its own Options.preserve_unknown:
\* Outer declares `title` (a String node) and `inner` (an Inner instance);
\* Inner declares `name` (a String node). The other keys are unknown ones.
OuterUnknown == {"ux", "uy"}
InnerUnknown == {"ix"}
InnerInputs == UNION {[K -> {"v"}] : K \in SUBSET ({"name"} \cup InnerUnknown)}
OuterInputs ==
    {[scalars |-> sc, inner |-> inn] :
        sc \in UNION {[K -> {"v"}] : K \in SUBSET ({"title"} \cup OuterUnknown)},
        inn \in [present : {TRUE}, m : InnerInputs] \cup {[present |-> FALSE, m |-> <<>>]}}

\* Mutant: the option not consulted.
schema_type_always_preserve(preserve_unknown) == "preserve"

\* ResourceSchema.schema_type: the `unknown` argument of colander.Mapping.
schema_type(preserve_unknown) == IF preserve_unknown = TRUE THEN "preserve" ELSE "ignore"

\* Mapping.deserialize: the declared keys, all required here, and the
\* unknown ones according to the policy.
Restrict(m, K) == [k \in DOMAIN m \cap K |-> m[k]]
MappingDeserialize(unknown, declared, m) ==
    IF unknown = "raise" /\ DOMAIN m \ declared # {} THEN Invalid("Unrecognized keys in mapping")
    ELSE IF ~(declared \subseteq DOMAIN m) THEN Invalid("Required")
    ELSE IF unknown = "preserve" THEN Value(m)
    ELSE Value(Restrict(m, declared))

ResourceSchemaDeserialize(options, c) ==
    LET inner == IF c.inner.present
                 THEN MappingDeserialize(schema_type(options.inner), {"name"}, c.inner.m)
                 ELSE Invalid("Required")
        outer == MappingDeserialize(schema_type(options.outer), {"title"}, c.scalars)
    IN IF inner.kind = "Invalid" \/ outer.kind = "Invalid" THEN Invalid("Invalid")
       ELSE Value([scalars |-> outer.v, inner |-> inner.v])

InitResource ==
    /\ pc = "start"
    /\ lib \in {b \in LibBuilds : b.coerce /\ b.seqdrop}   \* only texts are modelled here
    /\ schema \in [outer : BOOLEAN, inner : BOOLEAN]
    /\ cstruct \in OuterInputs
    /\ result = NoResult
    /\ objs = <<>>
    /\ insts = <<>>

DeserializeResource ==
    /\ pc = "start"
    /\ result' = ResourceSchemaDeserialize(schema, cstruct)
    /\ pc' = "done"
    /\ UNCHANGED <<lib, schema, cstruct, objs, insts>>

SpecResource == InitResource /\ [][DeserializeResource]_vars

ResourceDone == pc = "done" /\ schema \in [outer : BOOLEAN, inner : BOOLEAN]
DeclaredPresent == "title" \in DOMAIN cstruct.scalars /\ cstruct.inner.present
                      /\ "name" \in DOMAIN cstruct.inner.m

\* C7 as stated: with preserve_unknown false inside preserve_unknown true,
\* an unknown key at the inner level is rejected, while unknown keys at the
\* outer level are accepted and passed through unchanged.
C7_AsClaimed ==
    (ResourceDone /\ schema.outer /\ ~schema.inner /\ DeclaredPresent) =>
        /\ (DOMAIN cstruct.inner.m \cap InnerUnknown # {}) => result.kind = "Invalid"
        /\ result.kind = "value" => result.v.scalars = cstruct.scalars

\* C7 amended: each level applies its own policy whatever the other's is:
\* with preserve_unknown false a level drops its unknown keys silently
\* (deserialization does not fail on them), with preserve_unknown true it
\* passes them through unchanged.
C7_Amended ==
    (ResourceDone /\ DeclaredPresent) =>
        /\ result.kind = "value"
        /\ result.v.scalars =
              IF schema.outer THEN cstruct.scalars ELSE Restrict(cstruct.scalars, {"title"})
        /\ result.v.inner =
              IF schema.inner THEN cstruct.inner.m ELSE Restrict(cstruct.inner.m, {"name"})

C7_Witness ==
    /\ ResourceDone /\ schema.outer /\ ~schema.inner /\ DeclaredPresent
    /\ "ix" \in DOMAIN cstruct.inner.m
    /\ "ux" \in DOMAIN cstruct.scalars
    /\ result.kind = "value"
    /\ "ux" \in DOMAIN result.v.scalars
    /\ "ix" \notin DOMAIN result.v.inner

----------------------------------------------------------------------------
(* Binding: RecordSchema, RequestSchema, PayloadRequestSchema and          *)
(* JsonPatchRequestSchema, with colander's bind (clone, then resolve the   *)
(* deferred attributes, then after_bind).                                  *)

\* The schema objects callers put in binding contexts: two record schemas
\* (every sub-field of D1 has a default, D2 has a required one), a
\* permissions schema, a body schema, a header and a querystring schema.
ObjIds == {"D1", "D2", "P", "B", "H", "Q"}
ObjFields(o) ==
    IF o = "D1" THEN {[name |-> "title", missing |-> "value"], [name |-> "tags", missing |-> "drop"]}
    ELSE IF o = "D2" THEN {[name |-> "title", missing |-> "required"]}
    ELSE {}

NodeAttrs(n, m, d) == [name |-> n, missing |-> m, default |-> d]
InitObjs ==
    [o \in ObjIds |-> NodeAttrs("", IF o \in {"P", "H", "Q"} THEN "drop" ELSE "required", "null")]

\* A child of a schema instance: a context-supplied object itself (shared),
\* or a node of the instance's own (a clone, or a node it constructed), which
\* carries its attributes.
SharedChild(o) == [obj |-> o, shared |-> TRUE, own |-> NodeAttrs("", "", "")]
OwnChild(o, attrs) == [obj |-> o, shared |-> FALSE, own |-> attrs]
View(ch, O) == IF ch.shared THEN O[ch.obj] ELSE ch.own

Classes == {"RecordSchema", "RequestSchema", "PayloadRequestSchema", "JsonPatchRequestSchema"}

\* The deferred class attributes, in the order of dir().
DirOrder(cls) ==
    IF cls = "RecordSchema" THEN <<"data", "permissions">>
    ELSE IF cls = "RequestSchema" THEN <<"header", "querystring">>
    ELSE IF cls = "PayloadRequestSchema" THEN <<"body", "header", "querystring">>
    ELSE <<>>

\* A freshly constructed instance: a deferred attribute is no child yet;
\* JsonPatchRequestSchema declares its three children statically.
Fresh(cls) ==
    [cls |-> cls,
     children |-> IF cls = "JsonPatchRequestSchema"
                  THEN << OwnChild("JsonPatchBodySchema", NodeAttrs("body", "required", "null")),
                          OwnChild("QuerySchema", NodeAttrs("querystring", "drop", "null")),
                          OwnChild("PatchHeaderSchema", NodeAttrs("header", "drop", "null")) >>
                  ELSE <<>>,
     attrs |-> [k \in Range(DirOrder(cls)) |-> "deferred"],
     src |-> 0,
     first |-> FALSE,
     ctx |-> <<>>]

\* data.deserialize({}) of a record schema: Invalid unless every sub-field
\* has a `missing`.
ProbeEmpty(o) == \A f \in ObjFields(o) : f.missing # "required"

Resolved(v, O) == [v |-> v, O |-> O]

\* Mutant: the probe's outcome not acted upon.
RecordSchema_data_no_allowance(kwargs, O) ==
    IF "data" \in DOMAIN kwargs THEN Resolved(kwargs["data"], O) ELSE Resolved("None", O)

\* RecordSchema.data
RecordSchema_data(kwargs, O) ==
    IF "data" \in DOMAIN kwargs
    THEN LET data == kwargs["data"]
         IN IF ProbeEmpty(data)
            THEN Resolved(data, [O EXCEPT ![data].default = "{}", ![data].missing = "drop"])
            ELSE Resolved(data, O)
    ELSE Resolved("None", O)

\* get_perms, get_body: kwargs.get(name)
GetFromContext(name, kwargs, O) ==
    IF name \in DOMAIN kwargs THEN Resolved(kwargs[name], O) ELSE Resolved("None", O)

\* Mutant: the attribute not deferred again when the context lacks it.
KeepDeferredNever(name, kwargs, O) == GetFromContext(name, kwargs, O)

\* RecordSchema.permissions, PayloadRequestSchema.body:
\* get(node, kwargs) or colander.deferred(get)
KeepDeferred(name, kwargs, O) ==
    IF name \in DOMAIN kwargs THEN Resolved(kwargs[name], O) ELSE Resolved("redeferred", O)

\* RequestSchema.header, RequestSchema.querystring: kwargs.get(name)
RequestSchema_deferred(name, kwargs, O) == GetFromContext(name, kwargs, O)

ClassDeferred(name, kwargs, O) ==
    IF name = "data" THEN RecordSchema_data(kwargs, O)
    ELSE IF name \in {"permissions", "body"} THEN KeepDeferred(name, kwargs, O)
    ELSE RequestSchema_deferred(name, kwargs, O)

\* SchemaNode.get(name): the first child of that name, 0 if there is none.
IndexOf(children, name, O) ==
    LET hits == {i \in 1..Len(children) : View(children[i], O).name = name}
    IN IF hits = {} THEN 0 ELSE CHOOSE i \in hits : \A j \in hits : i <= j

\* SchemaNode.__setitem__(name, node): the node is renamed, and replaces the
\* first child of that name or is appended.
SetItem(st, name, ch) ==
    LET O1 == IF ch.shared THEN [st.O EXCEPT ![ch.obj].name = name] ELSE st.O
        i == IndexOf(st.inst.children, name, O1)
    IN [inst |-> [st.inst EXCEPT !.children =
                      IF i = 0 THEN Append(@, ch) ELSE [@ EXCEPT ![i] = ch]],
        O |-> O1]

\* One round of the loop of SchemaNode._bind over dir(self).
BindAttribute(st, name, kwargs) ==
    LET a == st.inst.attrs[name]
    IN IF a = "None" THEN st
       ELSE LET r == IF a = "deferred" THEN ClassDeferred(name, kwargs, st.O)
                     ELSE GetFromContext(name, kwargs, st.O)
            IN IF r.v \in ObjIds
               THEN SetItem([inst |-> st.inst, O |-> r.O], name, SharedChild(r.v))
               ELSE [inst |-> [st.inst EXCEPT !.attrs[name] = r.v], O |-> r.O]

RECURSIVE BindAttributes(_, _, _)
BindAttributes(st, names, kwargs) ==
    IF Len(names) = 0 THEN st
    ELSE BindAttributes(BindAttribute(st, names[1], kwargs), Tail(names), kwargs)

DefaultHeader == OwnChild("HeaderSchema", NodeAttrs("header", "drop", "null"))
DefaultQuery == OwnChild("QuerySchema", NodeAttrs("querystring", "drop", "null"))

\* Mutant: the defaults set whatever the binding resolved.
after_bind_always(st) ==
    SetItem(SetItem(st, "header", DefaultHeader), "querystring", DefaultQuery)

\* RequestSchema.after_bind
after_bind(st) ==
    LET st1 == IF IndexOf(st.inst.children, "header", st.O) = 0
               THEN SetItem(st, "header", DefaultHeader) ELSE st
    IN IF IndexOf(st1.inst.children, "querystring", st1.O) = 0
       THEN SetItem(st1, "querystring", DefaultQuery) ELSE st1

\* SchemaNode.clone: the children are cloned, the attributes copied.
Clone(inst, O) ==
    [inst EXCEPT !.children = [i \in 1..Len(inst.children) |->
                                  OwnChild(inst.children[i].obj, View(inst.children[i], O))]]

\* SchemaNode.bind
BindSchema(inst, kwargs, O) ==
    LET st == BindAttributes([inst |-> Clone(inst, O), O |-> O], DirOrder(inst.cls), kwargs)
    IN IF inst.cls = "RecordSchema" THEN st ELSE after_bind(st)

\* The binding contexts of the model, by schema class. D1 is also supplied
\* as the body schema of a payload request.
Contexts(cls) ==
    LET pick(k, S) == {<<>>} \cup {[j \in {k} |-> o] : o \in S}
        record == {Update(a, b) : a \in pick("data", {"D1", "D2"}), b \in pick("permissions", {"P"})}
        request == {Update(a, b) : a \in pick("header", {"H"}), b \in pick("querystring", {"Q"})}
    IN IF cls = "RecordSchema" THEN record
       ELSE IF cls = "PayloadRequestSchema"
       THEN {Update(a, b) : a \in request, b \in pick("body", {"B", "D1"})}
       ELSE request

\* Record bodies: `data` and `permissions`, each absent or an empty mapping.
RecordBodies == SUBSET {"data", "permissions"}

\* What a child of a record schema makes of its part of the body.
ChildDeserialize(ch, present, O) ==
    IF ~present
    THEN IF View(ch, O).missing = "drop" THEN Drop ELSE Invalid("Required")
    ELSE IF ProbeEmpty(ch.obj)
    THEN Value({f.name : f \in {g \in ObjFields(ch.obj) : g.missing = "value"}})
    ELSE Invalid("Required")

\* Mapping.deserialize with unknown='raise' over the children of the instance.
RecordSchemaDeserialize(inst, body, O) ==
    LET names == {View(inst.children[i], O).name : i \in 1..Len(inst.children)}
        res == [i \in 1..Len(inst.children) |->
                   ChildDeserialize(inst.children[i], View(inst.children[i], O).name \in body, O)]
        kept == {i \in 1..Len(inst.children) : res[i].kind = "value"}
    IN IF body \ names # {} THEN Invalid("Unrecognized keys in mapping")
       ELSE IF \E i \in 1..Len(inst.children) : res[i].kind = "Invalid" THEN Invalid("Required")
       ELSE Value({<<View(inst.children[i], O).name, res[i].v>> : i \in kept})

InitBind ==
    /\ pc = "run"
    /\ lib \in {b \in LibBuilds : b.coerce /\ b.seqdrop}   \* no text is deserialized here
    /\ schema = 0
    /\ cstruct = {}
    /\ result = NoResult
    /\ objs = InitObjs
    /\ insts = <<>>

\* schema.bind(**kwargs) on a freshly constructed instance of a class.
BindFresh ==
    /\ Len(insts) < MaxInsts
    /\ \E cls \in Classes : \E kwargs \in Contexts(cls) :
          LET st == BindSchema(Fresh(cls), kwargs, objs)
          IN /\ insts' = Append(insts, [st.inst EXCEPT !.src = 0, !.first = TRUE, !.ctx = kwargs])
             /\ objs' = st.O
    /\ UNCHANGED <<pc, lib, schema, cstruct, result>>

\* bound.bind(**kwargs) on an instance an earlier bind returned.
BindAgain ==
    /\ Len(insts) < MaxInsts
    /\ \E i \in 1..Len(insts) : \E kwargs \in Contexts(insts[i].cls) :
          LET st == BindSchema(insts[i], kwargs, objs)
          IN /\ insts' = Append(insts, [st.inst EXCEPT !.src = i, !.first = FALSE, !.ctx = kwargs])
             /\ objs' = st.O
    /\ UNCHANGED <<pc, lib, schema, cstruct, result>>

\* bound.deserialize(body) on a bound record schema.
DeserializeRecord ==
    /\ \E i \in 1..Len(insts) : \E body \in RecordBodies :
          /\ insts[i].cls = "RecordSchema"
          /\ schema' = i
          /\ cstruct' = body
          /\ result' = RecordSchemaDeserialize(insts[i], body, objs)
    /\ UNCHANGED <<pc, lib, objs, insts>>

NextBind == BindFresh \/ BindAgain \/ DeserializeRecord

SpecBind == InitBind /\ [][NextBind]_vars

Bound == 1..Len(insts)
ChildNamed(inst, name) ==
    LET i == IndexOf(inst.children, name, objs) IN inst.children[i]
CountNamed(inst, name) ==
    Cardinality({i \in 1..Len(inst.children) : View(inst.children[i], objs).name = name})
HasChild(inst, ch) == \E i \in 1..Len(inst.children) : inst.children[i] = ch

\* A record schema bound once, with a `data` schema that deserializes {}.
EmptyRecordAllowed(i) ==
    /\ insts[i].cls = "RecordSchema"
    /\ insts[i].first
    /\ "data" \in DOMAIN insts[i].ctx
    /\ ProbeEmpty(insts[i].ctx["data"])

TwoPhase(j, name) ==
    /\ insts[j].src # 0
    /\ insts[insts[j].src].first
    /\ name \notin DOMAIN insts[insts[j].src].ctx
    /\ name \in DOMAIN insts[j].ctx

ReDeferrable(cls) ==
    IF cls = "RecordSchema" THEN {"permissions"}
    ELSE IF cls = "PayloadRequestSchema" THEN {"body"} ELSE {}

\* C8: a `body` (PayloadRequestSchema) or `permissions` (RecordSchema) that
\* the first binding context lacks stays deferred, and a second bind of the
\* result with a context that has it resolves it to that very schema, the
\* sub-schema a single bind with that context gives.
C8_TwoPhaseBinding ==
    \A j \in Bound : \A name \in ReDeferrable(insts[j].cls) :
        /\ (insts[j].first /\ name \notin DOMAIN insts[j].ctx) =>
              /\ insts[j].attrs[name] = "redeferred"
              /\ IndexOf(insts[j].children, name, objs) = 0
        /\ TwoPhase(j, name) =>
              /\ HasChild(insts[j], SharedChild(insts[j].ctx[name]))
              /\ HasChild(BindSchema(Fresh(insts[j].cls), insts[j].ctx, objs).inst,
                          SharedChild(insts[j].ctx[name]))

C8_Witness ==
    \E j \in Bound :
        /\ insts[j].cls = "PayloadRequestSchema"
        /\ TwoPhase(j, "body")
        /\ insts[j].ctx["body"] = "B"
        /\ ChildNamed(insts[j], "body") = SharedChild("B")

\* What an instance observes of its sub-schemas: which they are, and their
\* `missing` and `default`.
ViewOf(inst, O) ==
    [i \in 1..Len(inst.children) |->
        [obj |-> inst.children[i].obj,
         missing |-> View(inst.children[i], O).missing,
         default |-> View(inst.children[i], O).default]]

\* C9: binding is idempotent (two binds of the same schema with the same
\* context give equivalent schemas) and isolated (a bind changes no
\* attribute that an instance bound earlier observes), under every
\* interleaving of bind and deserialize steps.
C9_IdempotentIsolated ==
    [][/\ \A i \in Bound : ViewOf(insts[i], objs') = ViewOf(insts[i], objs)
       /\ \A i, j \in 1..Len(insts') :
             (/\ insts'[i].cls = insts'[j].cls
              /\ insts'[i].src = insts'[j].src
              /\ insts'[i].ctx = insts'[j].ctx)
             => /\ ViewOf(insts'[i], objs') = ViewOf(insts'[j], objs')
                /\ insts'[i].attrs = insts'[j].attrs]_vars

RequestClasses == {"RequestSchema", "PayloadRequestSchema"}
DefaultChild(name) == IF name = "header" THEN DefaultHeader ELSE DefaultQuery

====
